---- MODULE Spec2Model ----
(***************************************************************************)
(* Model of the trend-spotting dashboard (src/App.tsx): the proxy-fallback *)
(* fetcher fetchFeed, the feed loader loadData with its mount/interval     *)
(* scheduling, and the sort/derive layer sortTrends / toggleSort.          *)
(*                                                                         *)
(* Four specifications share the definitions:                              *)
(*   Spec       the App component: mount, timer, manual refresh, toggles,  *)
(*              unmount, and the network responses of every fetchFeed leg  *)
(*   FairSpec   Spec plus "every issued request eventually settles"        *)
(*   SpecFetch  one fetchFeed call against a drawn table of relay outcomes *)
(*   SpecSort   sortTrends / toggleSort over drawn item sequences          *)
(***************************************************************************)
EXTENDS Integers, Sequences, FiniteSets, TLC

\* ---------------------------------------------------------------- bounds
MaxInv == 2        \* loadData invocations started in one behaviour
MaxClock == 2      \* timer periods of wall-clock time observed
MaxHeadLen == 2    \* marker tokens in a drawn response body
MaxItems == 3      \* items in a drawn item sequence
MaxTime == 1       \* drawn timestamps range over -MaxTime..MaxTime

\* ------------------------------------------------------ program constants
NumRelays == 3                       \* proxyGenerators.length
IntervalMs == 15 * 60 * 1000         \* setInterval period
DayMs == 24 * 60 * 60 * 1000         \* toLocaleTimeString drops the date
Geos == <<"BD", "GB">>               \* Promise.all([fetchFeed('BD'), fetchFeed('GB')])
Null == "null"
FallbackNotice == "Live connection failed. Displaying cached data. Please try again later."

VARIABLES
    bdTrends, ukTrends, lastUpdated, loading, isLive, errorMessage, sortOrder,
    phase,        \* "init" (rendered, effect not run) | "mounted" | "unmounted"
    intervalId,   \* TRUE while the setInterval timer is registered
    now,          \* wall clock in ms, observed at multiples of IntervalMs
    inv,          \* loadData invocations in start order
    lastDone,     \* observer: the locals of the latest completed invocation
    shown,        \* observer: lists displayed since the last load completion
    call, relays, requests, warnings   \* one fetchFeed call (SpecFetch)

appVars == <<bdTrends, ukTrends, lastUpdated, loading, isLive, errorMessage>>
loadVars == <<phase, intervalId, now, inv, lastDone>>
fetchVars == <<call, relays, requests, warnings>>
vars == <<bdTrends, ukTrends, lastUpdated, loading, isLive, errorMessage,
          sortOrder, phase, intervalId, now, inv, lastDone, shown,
          call, relays, requests, warnings>>

\* ------------------------------------------------------------ text bodies
\* A response body is modelled by the tokens that matter to the code: the
\* markers it contains (text.includes) and the entries the parser extracts.
Tokens == {"<rss", "<?xml", "<html"}

RECURSIVE SeqsUpTo(_, _)
SeqsUpTo(S, n) ==
    IF n = 0 THEN {<<>>}
    ELSE LET shorter == SeqsUpTo(S, n - 1)
         IN  shorter \cup {Append(s, x) : s \in {t \in shorter : Len(t) = n - 1}, x \in S}

Text(head, entries) == [head |-> head, entries |-> entries]

includes(text, token) == \E k \in 1..Len(text.head) : text.head[k] = token

\* pubDate strings: either a date denoting an integer timestamp or garbage
Date(t) == [valid |-> TRUE, t |-> t]
BadDate == [valid |-> FALSE, t |-> 0]
Entry(title, pubDate) == [title |-> title, pubDate |-> pubDate]

parseTrendsXML(text) ==
    [k \in 1..Len(text.entries) |->
        [id |-> k, title |-> text.entries[k].title, pubDate |-> text.entries[k].pubDate]]

FeedHead == <<"<?xml", "<rss">>
BANGLADESH_XML == Text(FeedHead, <<Entry(<<"sample", "BD", 1>>, Date(2)), Entry(<<"sample", "BD", 2>>, Date(1))>>)
UK_XML == Text(FeedHead, <<Entry(<<"sample", "GB", 1>>, Date(1)), Entry(<<"sample", "GB", 2>>, BadDate)>>)

\* ------------------------------------------------------------- fetchFeed
\* What one relay attempt can do: fetch() throws, or a response arrives with
\* a status; response.text() of an ok response yields the body or throws.
Throw == [kind |-> "throw", ok |-> FALSE, readable |-> FALSE, body |-> Text(<<>>, <<>>)]
NonOk == [kind |-> "response", ok |-> FALSE, readable |-> FALSE, body |-> Text(<<>>, <<>>)]
BodyThrow == [kind |-> "response", ok |-> TRUE, readable |-> FALSE, body |-> Text(<<>>, <<>>)]
Ok(text) == [kind |-> "response", ok |-> TRUE, readable |-> TRUE, body |-> text]

NoResult == [kind |-> "none"]
TextResult(text) == [kind |-> "text", text |-> text]
ErrorResult(geo) == [kind |-> "error", message |-> <<"Unable to reach Google Trends for", geo>>]

HasMarker(text) == includes(text, "<rss") \/ includes(text, "<?xml")

\* variant: any ok response is taken, the marker test dropped
AcceptedAnyOk(o) == o.kind = "response" /\ o.ok /\ o.readable

Accepted(o) == o.kind = "response" /\ o.ok /\ o.readable /\ HasMarker(o.body)

\* the catch block of the loop body: console.warn
Warns(o) == o.kind = "throw" \/ (o.kind = "response" /\ o.ok /\ ~o.readable)

\* variant: the loop skips a generator
NextIdxSkip(idx) == idx + 2

NextIdx(idx) == idx + 1

\* variant: the loop gives up one generator early
fetchAttemptShort(leg, o, geo) ==
    IF Accepted(o)
    THEN [idx |-> leg.idx, status |-> "resolved", result |-> TextResult(o.body)]
    ELSE IF NextIdx(leg.idx) < NumRelays
         THEN [idx |-> NextIdx(leg.idx), status |-> "pending", result |-> NoResult]
         ELSE [idx |-> leg.idx, status |-> "rejected", result |-> ErrorResult(geo)]

\* One iteration of the for-loop, resumed with the outcome o of the request
\* issued for generator leg.idx.
fetchAttempt(leg, o, geo) ==
    IF Accepted(o)
    THEN [idx |-> leg.idx, status |-> "resolved", result |-> TextResult(o.body)]
    ELSE IF NextIdx(leg.idx) <= NumRelays
         THEN [idx |-> NextIdx(leg.idx), status |-> "pending", result |-> NoResult]
         ELSE [idx |-> leg.idx, status |-> "rejected", result |-> ErrorResult(geo)]

\* fetchFeed up to its first await: the request for the first generator
FirstAttempt == [idx |-> 1, status |-> "pending", result |-> NoResult]
NotCalled == [idx |-> 0, status |-> "idle", result |-> NoResult]

\* ---- one fetchFeed call against a table of relay outcomes (SpecFetch)
FetchTexts == {Text(h, <<>>) : h \in SeqsUpTo(Tokens, MaxHeadLen)}
FetchOutcomes == {Throw, NonOk, BodyThrow} \cup {Ok(t) : t \in FetchTexts}

FetchCall ==
    /\ call.leg.status = "idle"
    /\ call' = [call EXCEPT !.leg = FirstAttempt]
    /\ requests' = <<1>>
    /\ UNCHANGED <<relays, warnings>>

FetchSettle ==
    /\ call.leg.status = "pending"
    /\ LET o == relays[call.leg.idx]
           leg == fetchAttempt(call.leg, o, call.geo)
       IN  /\ call' = [call EXCEPT !.leg = leg]
           /\ warnings' = IF Warns(o) THEN warnings + 1 ELSE warnings
           /\ requests' = IF leg.status = "pending" THEN Append(requests, leg.idx)
                          ELSE requests
    /\ UNCHANGED relays

\* ------------------------------------------------------------ sortTrends
getTime(pubDate) == IF pubDate.valid THEN [nan |-> FALSE, v |-> pubDate.t]
                    ELSE [nan |-> TRUE, v |-> 0]

\* variant: NaN is given a key below every timestamp
OrZeroOldest(n) == IF n.nan THEN 0 - (MaxTime + 1) ELSE n.v

\* `x || 0`: NaN and 0 are falsy
OrZero(n) == IF n.nan \/ n.v = 0 THEN 0 ELSE n.v

Key(item) == OrZero(getTime(item.pubDate))

\* variant: the direction test lost, both orders compare descending
compareOneWay(a, b, order) == Key(b) - Key(a)

compare(a, b, order) == IF order = "desc" THEN Key(b) - Key(a) ELSE Key(a) - Key(b)

\* Array.prototype.sort is stable: x goes after every element not greater
RECURSIVE InsertSorted(_, _, _)
InsertSorted(s, x, order) ==
    IF s = <<>> THEN <<x>>
    ELSE IF compare(s[Len(s)], x, order) <= 0 THEN Append(s, x)
         ELSE Append(InsertSorted(SubSeq(s, 1, Len(s) - 1), x, order), s[Len(s)])

RECURSIVE SortPrefix(_, _, _)
SortPrefix(items, n, order) ==
    IF n = 0 THEN <<>>
    ELSE InsertSorted(SortPrefix(items, n - 1, order), items[n], order)

sortTrends(items, order) == SortPrefix(items, Len(items), order)

sortedBdTrends == sortTrends(bdTrends, sortOrder)
sortedUkTrends == sortTrends(ukTrends, sortOrder)

\* variant: the toggle never goes back to 'desc'
ToggledStuck(prev) == IF prev = "desc" THEN "asc" ELSE "asc"

Toggled(prev) == IF prev = "desc" THEN "asc" ELSE "desc"

Rendered(order, bd, uk) ==
    [sortOrder |-> order, bd |-> sortTrends(bd, order), uk |-> sortTrends(uk, order)]

LastTwo(s) == IF Len(s) <= 2 THEN s ELSE SubSeq(s, Len(s) - 1, Len(s))

\* variant: the sort works on the stored arrays themselves, no copy taken
toggleSortInPlace ==
    /\ phase = "mounted"
    /\ sortOrder' = Toggled(sortOrder)
    /\ bdTrends' = sortTrends(bdTrends, sortOrder')
    /\ ukTrends' = sortTrends(ukTrends, sortOrder')
    /\ UNCHANGED <<lastUpdated, loading, isLive, errorMessage, loadVars, fetchVars>>

toggleSort ==
    /\ phase = "mounted"
    /\ sortOrder' = Toggled(sortOrder)
    /\ UNCHANGED <<appVars, loadVars, fetchVars>>

\* observer: the render that follows a toggle
ToggleObserved ==
    /\ toggleSort
    /\ shown' = Append(LastTwo(shown), Rendered(sortOrder', bdTrends', ukTrends'))

\* -------------------------------------------------------------- loadData
GeoSet == {Geos[k] : k \in 1..Len(Geos)}
Invs == 1..MaxInv

\* new Date().toLocaleTimeString(): time of day to the second, no date
toLocaleTimeString(t) == <<(t % DayMs) \div 1000>>

\* What the relays can answer to a request of a loadData leg
HtmlPage == Text(<<"<html">>, <<>>)
EmptyFeed == Text(FeedHead, <<>>)
LiveFeed(geo, v) ==
    IF v = 1
    THEN Text(FeedHead, <<Entry(<<"live1", geo, 1>>, Date(1)), Entry(<<"live1", geo, 2>>, Date(2))>>)
    ELSE Text(<<"<rss">>, <<Entry(<<"live2", geo, 1>>, BadDate)>>)
LoadOutcomes(geo) ==
    {Throw, NonOk, BodyThrow, Ok(HtmlPage), Ok(EmptyFeed), Ok(LiveFeed(geo, 1)), Ok(LiveFeed(geo, 2))}

IdleInv == [status |-> "idle", origin |-> "none", branch |-> "none",
            legs |-> [g \in GeoSet |-> NotCalled]]

Started == Cardinality({i \in Invs : inv[i].status # "idle"})

NoneDone == [by |-> 0, branch |-> "none", bd |-> <<>>, uk |-> <<>>, at |-> 0]

\* variant: the entry also drops the live flag
StartLoadResets(origin) ==
    /\ Started < MaxInv
    /\ inv' = [inv EXCEPT ![Started + 1] =
                 [status |-> "running", origin |-> origin, branch |-> "none",
                  legs |-> [g \in GeoSet |-> FirstAttempt]]]
    /\ loading' = TRUE
    /\ errorMessage' = Null
    /\ isLive' = FALSE
    /\ UNCHANGED <<bdTrends, ukTrends, lastUpdated>>

\* loadData up to its first await: both fetchFeed calls have issued their
\* first request when Promise.all is awaited.
StartLoad(origin) ==
    /\ Started < MaxInv
    /\ inv' = [inv EXCEPT ![Started + 1] =
                 [status |-> "running", origin |-> origin, branch |-> "none",
                  legs |-> [g \in GeoSet |-> FirstAttempt]]]
    /\ loading' = TRUE
    /\ errorMessage' = Null
    /\ UNCHANGED <<bdTrends, ukTrends, lastUpdated, isLive>>

\* variant: the join waits for every leg, as Promise.allSettled would
JoinedAllSettled(legs) == \A g \in GeoSet : legs[g].status \in {"resolved", "rejected"}

\* variant: a rejected leg does not settle the join
JoinedNoReject(legs) == \A g \in GeoSet : legs[g].status = "resolved"

\* Promise.all settles: on the first rejection, or when every leg resolved
Joined(legs) ==
    \/ \E g \in GeoSet : legs[g].status = "rejected"
    \/ \A g \in GeoSet : legs[g].status = "resolved"

Parsed(legs, geo) ==
    IF legs[geo].status = "resolved" THEN parseTrendsXML(legs[geo].result.text) ELSE <<>>

Resolved(legs) == \A g \in GeoSet : legs[g].status = "resolved"

\* variant: one non-empty parse is enough
TakesSuccessEither(legs) ==
    /\ Resolved(legs)
    /\ (Len(Parsed(legs, "BD")) > 0 \/ Len(Parsed(legs, "GB")) > 0)

TakesSuccess(legs) ==
    /\ Resolved(legs)
    /\ Len(Parsed(legs, "BD")) > 0 /\ Len(Parsed(legs, "GB")) > 0

\* variant: setUkTrends is not called
SuccessWritesBdOnly(parsedBd, parsedUk, t) ==
    [bdTrends |-> parsedBd, ukTrends |-> ukTrends, isLive |-> TRUE,
     lastUpdated |-> toLocaleTimeString(t), errorMessage |-> errorMessage]

\* variant: the parsed items are appended to the stored ones
SuccessWritesAppend(parsedBd, parsedUk, t) ==
    [bdTrends |-> bdTrends \o parsedBd, ukTrends |-> ukTrends \o parsedUk, isLive |-> TRUE,
     lastUpdated |-> toLocaleTimeString(t), errorMessage |-> errorMessage]

SuccessWrites(parsedBd, parsedUk, t) ==
    [bdTrends |-> parsedBd, ukTrends |-> parsedUk, isLive |-> TRUE,
     lastUpdated |-> toLocaleTimeString(t), errorMessage |-> errorMessage]

FailureWrites(t) ==
    [bdTrends |-> parseTrendsXML(BANGLADESH_XML), ukTrends |-> parseTrendsXML(UK_XML),
     isLive |-> FALSE, lastUpdated |-> toLocaleTimeString(t),
     errorMessage |-> FallbackNotice]

\* a settled promise nobody references any more keeps only its fate
Released(legs) ==
    [g \in GeoSet |->
        IF legs[g].status = "pending" THEN legs[g]
        ELSE [idx |-> 0, status |-> legs[g].status, result |-> NoResult]]

\* variant: the finally block is lost, loading stays as it was
CompleteNoFinally(i, legs) ==
    LET success == TakesSuccess(legs)
        w == IF success THEN SuccessWrites(Parsed(legs, "BD"), Parsed(legs, "GB"), now)
             ELSE FailureWrites(now)
    IN  /\ bdTrends' = w.bdTrends
        /\ ukTrends' = w.ukTrends
        /\ isLive' = w.isLive
        /\ lastUpdated' = w.lastUpdated
        /\ errorMessage' = w.errorMessage
        /\ loading' = loading
        /\ inv' = [inv EXCEPT ![i] =
                     [status |-> "done", origin |-> inv[i].origin,
                      branch |-> IF success THEN "success" ELSE "failure",
                      legs |-> Released(legs)]]
        /\ lastDone' = [by |-> i, branch |-> IF success THEN "success" ELSE "failure",
                        bd |-> IF Resolved(legs) THEN Parsed(legs, "BD") ELSE <<>>,
                        uk |-> IF Resolved(legs) THEN Parsed(legs, "GB") ELSE <<>>,
                        at |-> now]

\* variant: a staleness guard, only the latest started invocation commits
CompleteIfLatest(i, legs) ==
    LET success == TakesSuccess(legs)
        latest == i = Started
        w == IF success THEN SuccessWrites(Parsed(legs, "BD"), Parsed(legs, "GB"), now)
             ELSE FailureWrites(now)
    IN  /\ bdTrends' = IF latest THEN w.bdTrends ELSE bdTrends
        /\ ukTrends' = IF latest THEN w.ukTrends ELSE ukTrends
        /\ isLive' = IF latest THEN w.isLive ELSE isLive
        /\ lastUpdated' = IF latest THEN w.lastUpdated ELSE lastUpdated
        /\ errorMessage' = IF latest THEN w.errorMessage ELSE errorMessage
        /\ loading' = FALSE
        /\ inv' = [inv EXCEPT ![i] =
                     [status |-> "done", origin |-> inv[i].origin,
                      branch |-> IF success THEN "success" ELSE "failure",
                      legs |-> Released(legs)]]
        /\ lastDone' = [by |-> i, branch |-> IF success THEN "success" ELSE "failure",
                        bd |-> IF Resolved(legs) THEN Parsed(legs, "BD") ELSE <<>>,
                        uk |-> IF Resolved(legs) THEN Parsed(legs, "GB") ELSE <<>>,
                        at |-> now]

\* the continuation of loadData after `await Promise.all`, through finally
Complete(i, legs) ==
    LET success == TakesSuccess(legs)
        w == IF success THEN SuccessWrites(Parsed(legs, "BD"), Parsed(legs, "GB"), now)
             ELSE FailureWrites(now)
    IN  /\ bdTrends' = w.bdTrends
        /\ ukTrends' = w.ukTrends
        /\ isLive' = w.isLive
        /\ lastUpdated' = w.lastUpdated
        /\ errorMessage' = w.errorMessage
        /\ loading' = FALSE
        /\ inv' = [inv EXCEPT ![i] =
                     [status |-> "done", origin |-> inv[i].origin,
                      branch |-> IF success THEN "success" ELSE "failure",
                      legs |-> Released(legs)]]
        /\ lastDone' = [by |-> i, branch |-> IF success THEN "success" ELSE "failure",
                        bd |-> IF Resolved(legs) THEN Parsed(legs, "BD") ELSE <<>>,
                        uk |-> IF Resolved(legs) THEN Parsed(legs, "GB") ELSE <<>>,
                        at |-> now]

\* The response of the pending request of leg g of invocation i arrives:
\* fetchFeed resumes, and when that settles Promise.all, loadData resumes in
\* the same turn of the event loop.  Nothing cancels a leg: it runs on after
\* its invocation completed and after unmount, and the setters are still
\* called then (the state variables are the values last handed to them).
LegSettle(i, g, o) ==
    /\ inv[i].legs[g].status = "pending"
    /\ LET leg == fetchAttempt(inv[i].legs[g], o, g)
           legs == [inv[i].legs EXCEPT ![g] = leg]
       IN  IF inv[i].status = "running" /\ Joined(legs)
           THEN Complete(i, legs)
           ELSE /\ inv' = [inv EXCEPT ![i].legs =
                             IF inv[i].status = "done" THEN Released(legs) ELSE legs]
                /\ UNCHANGED <<appVars, lastDone>>
    /\ UNCHANGED <<sortOrder, phase, intervalId, now, shown, fetchVars>>

\* useEffect body: loadData() then setInterval
Mount ==
    /\ phase = "init"
    /\ phase' = "mounted"
    /\ StartLoad("mount")
    /\ intervalId' = TRUE
    /\ UNCHANGED <<sortOrder, now, lastDone, shown, fetchVars>>

\* one interval elapses while the timer is registered: the callback runs
TimerTick ==
    /\ intervalId
    /\ now < MaxClock * IntervalMs
    /\ now' = now + IntervalMs
    /\ StartLoad("timer")
    /\ UNCHANGED <<sortOrder, phase, intervalId, lastDone, shown, fetchVars>>

\* the refresh button: onClick={loadData} disabled={loading}
ManualRefresh ==
    /\ phase = "mounted"
    /\ ~loading
    /\ StartLoad("manual")
    /\ UNCHANGED <<sortOrder, phase, intervalId, now, lastDone, shown, fetchVars>>

\* variant: the cleanup forgets clearInterval
UnmountLeak ==
    /\ phase = "mounted"
    /\ phase' = "unmounted"
    /\ UNCHANGED <<appVars, sortOrder, intervalId, now, inv, lastDone, shown, fetchVars>>

\* effect cleanup: clearInterval
Unmount ==
    /\ phase = "mounted"
    /\ phase' = "unmounted"
    /\ intervalId' = FALSE
    /\ UNCHANGED <<appVars, sortOrder, now, inv, lastDone, shown, fetchVars>>

\* time passing with no timer registered
ClockAdvance ==
    /\ phase = "unmounted"
    /\ ~intervalId
    /\ now < MaxClock * IntervalMs
    /\ now' = now + IntervalMs
    /\ UNCHANGED <<appVars, sortOrder, phase, intervalId, inv, lastDone, shown, fetchVars>>

ToggleSort == toggleSort /\ UNCHANGED shown

\* -------------------------------------------------------- specifications
AppInit ==
    /\ bdTrends = <<>> /\ ukTrends = <<>> /\ lastUpdated = <<>>
    /\ loading = TRUE /\ isLive = FALSE /\ errorMessage = Null
    /\ sortOrder = "desc"

NoFetch ==
    /\ call = [geo |-> "BD", leg |-> NotCalled]
    /\ relays = [k \in 1..NumRelays |-> Throw]
    /\ requests = <<>> /\ warnings = 0

Init ==
    /\ AppInit
    /\ phase = "init" /\ intervalId = FALSE /\ now = 0
    /\ inv = [i \in Invs |-> IdleInv]
    /\ lastDone = NoneDone
    /\ shown = <<>>
    /\ NoFetch

Settles == \E i \in Invs, g \in GeoSet : \E o \in LoadOutcomes(g) : LegSettle(i, g, o)

Next ==
    \/ Mount
    \/ TimerTick
    \/ ManualRefresh
    \/ Unmount
    \/ ClockAdvance
    \/ ToggleSort
    \/ Settles

Spec == Init /\ [][Next]_vars

\* every issued request eventually settles
FairSpec ==
    Spec /\ \A i \in Invs, g \in GeoSet :
                WF_vars(\E o \in LoadOutcomes(g) : LegSettle(i, g, o))

\* ---- fetchFeed alone
InitFetch ==
    /\ AppInit
    /\ phase = "init" /\ intervalId = FALSE /\ now = 0
    /\ inv = [i \in Invs |-> IdleInv]
    /\ lastDone = NoneDone
    /\ shown = <<>>
    /\ call \in [geo : GeoSet, leg : {NotCalled}]
    /\ relays \in [1..NumRelays -> FetchOutcomes]
    /\ requests = <<>> /\ warnings = 0

NextFetch ==
    \/ FetchCall /\ UNCHANGED <<appVars, sortOrder, loadVars, shown>>
    \/ FetchSettle /\ UNCHANGED <<appVars, sortOrder, loadVars, shown>>

SpecFetch == InitFetch /\ [][NextFetch]_vars

\* ---- sortTrends / toggleSort alone, over any stored item sequences
TimeStamps == (0 - MaxTime)..MaxTime
PubDates == {BadDate} \cup {Date(t) : t \in TimeStamps}
ItemSeqs == {parseTrendsXML(Text(FeedHead, es)) :
                es \in SeqsUpTo({Entry(<<"t">>, d) : d \in PubDates}, MaxItems)}

\* both columns go through the same sortTrends: the first is drawn from all
\* sequences, the second from the pairs
PairSeqs == {s \in ItemSeqs : Len(s) = Len(Geos)}

InitSort ==
    /\ bdTrends \in ItemSeqs /\ ukTrends \in PairSeqs
    /\ bdTrends # <<>>
    /\ lastUpdated = toLocaleTimeString(0)
    /\ loading = FALSE /\ isLive = TRUE /\ errorMessage = Null
    /\ sortOrder = "desc"
    /\ phase = "mounted" /\ intervalId = TRUE /\ now = 0
    /\ inv = [i \in Invs |->
                IF i = 1
                THEN [status |-> "done", origin |-> "mount", branch |-> "success",
                      legs |-> [g \in GeoSet |->
                                  [idx |-> 0, status |-> "resolved", result |-> NoResult]]]
                ELSE IdleInv]
    /\ lastDone = [by |-> 1, branch |-> "success", bd |-> bdTrends, uk |-> ukTrends, at |-> 0]
    /\ shown = <<Rendered(sortOrder, bdTrends, ukTrends)>>
    /\ NoFetch

NextSort == ToggleObserved

SpecSort == InitSort /\ [][NextSort]_vars

\* ================================================================ claims
\* ---- fetchFeed (SpecFetch)
\* the claims' own reading of "an ok response whose body has an XML marker"
OkWithMarker(o) ==
    /\ o.kind = "response" /\ o.ok /\ o.readable
    /\ \E k \in 1..Len(o.body.head) : o.body.head[k] \in {"<rss", "<?xml"}
AcceptedRelays == {k \in 1..NumRelays : OkWithMarker(relays[k])}
FirstAccepted == CHOOSE k \in AcceptedRelays : \A j \in AcceptedRelays : k <= j
Settled == call.leg.status \in {"resolved", "rejected"}

\* C1: when at least one relay yields an ok response whose body contains
\* '<rss' or '<?xml', fetchFeed never rejects and resolves with exactly the
\* body of the lowest-indexed such relay; until then it has not gone past it.
C1_FirstAcceptedWins ==
    AcceptedRelays # {} =>
        /\ call.leg.status # "rejected"
        /\ call.leg.idx <= FirstAccepted
        /\ call.leg.status = "resolved" =>
              /\ call.leg.idx = FirstAccepted
              /\ call.leg.result = TextResult(relays[FirstAccepted].body)

\* a later relay would have served a different accepted body, and an
\* earlier relay answered ok without a marker
C1_Witness ==
    /\ call.leg.status = "resolved"
    /\ FirstAccepted = 2
    /\ relays[1].ok /\ relays[1].readable /\ ~OkWithMarker(relays[1])
    /\ OkWithMarker(relays[3]) /\ relays[3].body # relays[2].body

\* C2: fetchFeed rejects if and only if none of the three relay attempts
\* produced an accepted response; it rejects only after all three generators
\* were attempted, and the error names the geography passed in.
C2_RejectsIffNoneAccepted ==
    /\ call.leg.status = "rejected" =>
          /\ AcceptedRelays = {}
          /\ requests = <<1, 2, 3>>
          /\ call.leg.result.kind = "error"
          /\ call.leg.result.message[Len(call.leg.result.message)] = call.geo
    /\ (Settled /\ AcceptedRelays = {}) => call.leg.status = "rejected"

\* rejected for GB after a throw, a non-ok status and an ok page without marker
C2_Witness ==
    /\ call.leg.status = "rejected" /\ call.geo = "GB"
    /\ relays[1] = Throw /\ relays[2] = NonOk
    /\ relays[3].ok /\ relays[3].readable /\ ~OkWithMarker(relays[3])

\* C10: within one call the generators are requested strictly in list order,
\* each at most once and at most three in total; generator i+1 is requested
\* only after the attempt for generator i ended unaccepted, and no request
\* follows an accepted response.
C10_SequentialSingleShot ==
    /\ Len(requests) <= NumRelays
    /\ \A k \in 1..Len(requests) : requests[k] = k
    /\ \A k \in 1..Len(requests) : k < Len(requests) => ~OkWithMarker(relays[k])
    /\ call.leg.status = "pending" => call.leg.idx = Len(requests)
    /\ call.leg.status = "resolved" =>
          Len(requests) = call.leg.idx /\ OkWithMarker(relays[Len(requests)])

\* accepted at the first relay although later relays would also accept
C10_Witness ==
    /\ call.leg.status = "resolved" /\ requests = <<1>>
    /\ OkWithMarker(relays[2]) /\ OkWithMarker(relays[3])

\* the claims' own reading of how an attempt ended
ThrewError(o) == o.kind = "throw" \/ (o.kind = "response" /\ o.ok /\ ~o.readable)
NonOkStatus(o) == o.kind = "response" /\ ~o.ok
\* the attempts of the call that have ended
Ended == IF call.leg.status = "pending" THEN 1..(Len(requests) - 1) ELSE 1..Len(requests)

\* C11 (as claimed): the warnings logged by a call number its attempts that
\* ended with a non-ok status or a thrown error. The catch block is entered
\* by a thrown error only, so a non-ok status goes unlogged.
C11_WarnsOnStatusAndThrow ==
    warnings = Cardinality({k \in Ended : ThrewError(relays[k]) \/ NonOkStatus(relays[k])})

\* ---- sortTrends / toggleSort (SpecSort)
Count(s, x) == Cardinality({k \in 1..Len(s) : s[k] = x})
IsPermutation(s, t) ==
    /\ Len(s) = Len(t)
    /\ \A k \in 1..Len(t) : Count(s, t[k]) = Count(t, t[k])
Reverse(s) == [k \in 1..Len(s) |-> s[Len(s) + 1 - k]]
DistinctKeys(s) == \A j, k \in 1..Len(s) : j # k => Key(s[j]) # Key(s[k])
NonIncreasing(s) == \A k \in 1..Len(s) - 1 : Key(s[k]) >= Key(s[k + 1])
NonDecreasing(s) == \A k \in 1..Len(s) - 1 : Key(s[k]) <= Key(s[k + 1])

SortedRight(items) ==
    LET d == sortTrends(items, "desc")
        a == sortTrends(items, "asc")
    IN  /\ IsPermutation(d, items) /\ NonIncreasing(d)
        /\ IsPermutation(a, items) /\ NonDecreasing(a)
        /\ DistinctKeys(items) => d = Reverse(a)

\* C8: sortTrends with 'desc' returns a permutation of its input with
\* non-increasing keys, with 'asc' a permutation with non-decreasing keys
\* (an unparseable pubDate has key 0); with pairwise distinct keys the
\* 'desc' result is the reverse of the 'asc' result.
C8_SortOrdersByKey == SortedRight(bdTrends) /\ SortedRight(ukTrends)

\* three items, distinct keys, one unparseable date, stored unsorted in
\* both directions, and displayed in ascending order
C8_Witness ==
    /\ Len(bdTrends) = 3 /\ DistinctKeys(bdTrends)
    /\ \E k \in 1..3 : ~bdTrends[k].pubDate.valid
    /\ sortTrends(bdTrends, "desc") # bdTrends
    /\ sortTrends(bdTrends, "asc") # bdTrends
    /\ sortOrder = "asc" /\ shown[Len(shown)].bd = sortTrends(bdTrends, "asc")

\* C9: two toggles with no load completion in between bring sortOrder and
\* both displayed sequences back to what they were, for items with pairwise
\* distinct timestamps.
C9_ToggleTwiceRestores ==
    (Len(shown) = 3 /\ DistinctKeys(bdTrends) /\ DistinctKeys(ukTrends)) =>
        /\ shown[3].sortOrder = shown[1].sortOrder
        /\ shown[3].bd = shown[1].bd
        /\ shown[3].uk = shown[1].uk

\* after two toggles, with a display that the first toggle did change
C9_Witness ==
    /\ Len(shown) = 3 /\ DistinctKeys(bdTrends) /\ DistinctKeys(ukTrends)
    /\ Len(bdTrends) = 3 /\ Len(ukTrends) = 2
    /\ shown[2].bd # shown[1].bd /\ shown[2].uk # shown[1].uk
    /\ shown[3] = Rendered(sortOrder, bdTrends, ukTrends)

Unparseable(item) == ~item.pubDate.valid
\* every unparseable item of s stands after (or, for asc, before) every
\* item with a parseable date
UnparseableLast(s) ==
    \A j, k \in 1..Len(s) : (Unparseable(s[j]) /\ ~Unparseable(s[k])) => k < j
UnparseableFirst(s) ==
    \A j, k \in 1..Len(s) : (Unparseable(s[j]) /\ ~Unparseable(s[k])) => j < k

\* C14 (as claimed): with negative as well as positive timestamps, the
\* items with an unparseable pubDate come last under 'desc' and first under
\* 'asc', after/before every item with a parseable date.
C14_UnparseableOldest ==
    /\ UnparseableLast(sortTrends(bdTrends, "desc"))
    /\ UnparseableFirst(sortTrends(bdTrends, "asc"))
    /\ UnparseableLast(sortTrends(ukTrends, "desc"))
    /\ UnparseableFirst(sortTrends(ukTrends, "asc"))

AtEpoch(item) == Unparseable(item) \/ item.pubDate.t = 0
\* newest first, the unparseable items where timestamp 0 belongs
EpochPlacedDesc(s) ==
    \A j, k \in 1..Len(s) :
        Unparseable(s[j]) =>
            /\ (s[k].pubDate.valid /\ s[k].pubDate.t > 0) => k < j
            /\ (s[k].pubDate.valid /\ s[k].pubDate.t < 0) => j < k
EpochPlacedAsc(s) ==
    \A j, k \in 1..Len(s) :
        Unparseable(s[j]) =>
            /\ (s[k].pubDate.valid /\ s[k].pubDate.t > 0) => j < k
            /\ (s[k].pubDate.valid /\ s[k].pubDate.t < 0) => k < j
PlacedAtEpoch(items) ==
    /\ EpochPlacedDesc(sortTrends(items, "desc"))
    /\ EpochPlacedAsc(sortTrends(items, "asc"))
    /\ SelectSeq(sortTrends(items, "desc"), AtEpoch) = SelectSeq(items, AtEpoch)
    /\ SelectSeq(sortTrends(items, "asc"), AtEpoch) = SelectSeq(items, AtEpoch)

\* C14 (amended): with negative as well as positive timestamps, an item with
\* an unparseable pubDate is placed where timestamp 0 belongs: under 'desc'
\* after every item with a positive timestamp and before every item with a
\* negative one, under 'asc' the other way round; among themselves and the
\* items dated exactly 0 the unparseable items keep their input order.
C14_UnparseableAtEpoch == PlacedAtEpoch(bdTrends) /\ PlacedAtEpoch(ukTrends)

\* an unparseable date stored ahead of a positive and a negative timestamp,
\* displayed in ascending order between the two
C14_Witness ==
    /\ Len(bdTrends) = 3 /\ Unparseable(bdTrends[1])
    /\ bdTrends[2].pubDate.valid /\ bdTrends[2].pubDate.t > 0
    /\ bdTrends[3].pubDate.valid /\ bdTrends[3].pubDate.t < 0
    /\ sortOrder = "asc" /\ Len(shown) > 1
    /\ shown[Len(shown)].bd = <<bdTrends[3], bdTrends[1], bdTrends[2]>>

\* ---- loadData (Spec, FairSpec)
SampleBd == parseTrendsXML(BANGLADESH_XML)
SampleUk == parseTrendsXML(UK_XML)

\* C3 (as claimed): an invocation that finishes through its success branch
\* leaves isLive = TRUE, errorMessage = null, lastUpdated set by it and both
\* item sequences equal to its two parsed results, whatever overlapped it.
C3_SuccessLeavesCleanState ==
    [][\A i \in Invs :
          (/\ inv[i].status = "running" /\ inv'[i].status = "done"
           /\ \A g \in GeoSet : inv'[i].legs[g].status = "resolved"
           /\ lastDone'.bd # <<>> /\ lastDone'.uk # <<>>)
          => /\ isLive' = TRUE
             /\ errorMessage' = Null
             /\ lastUpdated' = toLocaleTimeString(now')
             /\ bdTrends' = lastDone'.bd /\ ukTrends' = lastDone'.uk]_vars

\* C4: an invocation with a rejected leg or an empty parse leaves both item
\* sequences equal to the parses of the bundled samples, isLive = FALSE,
\* lastUpdated set by it and errorMessage equal to the fallback notice.
C4_FailureFallsBack ==
    [][\A i \in Invs :
          (/\ inv[i].status = "running" /\ inv'[i].status = "done"
           /\ \/ \E g \in GeoSet : inv'[i].legs[g].status = "rejected"
              \/ lastDone'.bd = <<>> \/ lastDone'.uk = <<>>)
          => /\ bdTrends' = SampleBd /\ ukTrends' = SampleUk
             /\ isLive' = FALSE
             /\ lastUpdated' = toLocaleTimeString(now')
             /\ errorMessage' = FallbackNotice]_vars

\* the latest completion had a non-empty BD parse and an empty GB parse, at
\* a later time than the start, and the samples are stored
C4_Witness ==
    /\ lastDone.by # 0 /\ lastDone.bd # <<>> /\ lastDone.uk = <<>>
    /\ \A g \in GeoSet : inv[lastDone.by].legs[g].status = "resolved"
    /\ lastDone.at > 0 /\ lastUpdated = toLocaleTimeString(lastDone.at)
    /\ bdTrends = SampleBd /\ ukTrends = SampleUk /\ ~isLive

\* C5: every started invocation eventually completes, given that every
\* issued request settles; the step that completes it leaves loading = FALSE
\* and non-empty (live or fallback) items.
C5_EveryLoadCompletes ==
    /\ \A i \in Invs : (inv[i].status = "running") ~> (inv[i].status = "done")
    /\ [][\A i \in Invs :
             (inv[i].status = "running" /\ inv'[i].status = "done")
             => loading' = FALSE /\ bdTrends' # <<>> /\ ukTrends' # <<>>]_vars

\* two invocations completed, one through each branch
C5_Witness ==
    /\ \E i \in Invs : inv[i].status = "done" /\ inv[i].branch = "success"
    /\ \E i \in Invs : inv[i].status = "done" /\ inv[i].branch = "failure"
    /\ ~loading

\* C6: once no invocation is in flight, the item sequences, isLive and
\* lastUpdated are those written by the invocation that completed last,
\* whatever the start order.
C6_LastCompletionWins ==
    (lastDone.by # 0 /\ \A i \in Invs : inv[i].status # "running") =>
        LET live == lastDone.bd # <<>> /\ lastDone.uk # <<>>
        IN  /\ bdTrends = IF live THEN lastDone.bd ELSE SampleBd
            /\ ukTrends = IF live THEN lastDone.uk ELSE SampleUk
            /\ isLive = live
            /\ lastUpdated = toLocaleTimeString(lastDone.at)

\* the first-started invocation completed last, through the failure branch,
\* over the live results of the invocation started after it
C6_Witness ==
    /\ inv[1].status = "done" /\ inv[2].status = "done"
    /\ lastDone.by = 1
    /\ inv[2].branch = "success" /\ inv[1].branch = "failure"
    /\ bdTrends = SampleBd /\ ~isLive

MountStarts == Cardinality({i \in Invs : inv[i].origin = "mount"})
TimerStarts == Cardinality({i \in Invs : inv[i].origin = "timer"})

\* C7: mounting starts exactly one invocation at once; while mounted every
\* elapsed interval starts exactly one more, in flight or not; after unmount
\* the timer starts none.
C7_Scheduling ==
    /\ [](MountStarts = IF phase = "init" THEN 0 ELSE 1)
    /\ [][(phase = "init" /\ phase' # "init")
            => inv'[1].status = "running" /\ inv'[1].origin = "mount" /\ now' = now]_vars
    /\ [][(phase = "mounted" /\ now' # now)
            => now' = now + IntervalMs /\ TimerStarts' = TimerStarts + 1]_vars
    /\ [][TimerStarts' # TimerStarts
            => /\ phase = "mounted" /\ phase' = "mounted"
               /\ now' = now + IntervalMs /\ TimerStarts' = TimerStarts + 1]_vars
    /\ [](phase = "unmounted" => ~intervalId)
    /\ [][phase = "unmounted" => phase' = "unmounted" /\ TimerStarts' = TimerStarts]_vars

\* a tick started an invocation while the first was in flight; after the
\* unmount a further interval elapsed and started nothing
C7_Witness ==
    /\ phase = "unmounted" /\ now = 2 * IntervalMs
    /\ inv[1].status = "running" /\ inv[2].origin = "timer"
    /\ TimerStarts = 1 /\ MountStarts = 1

Enters(i) == inv[i].status = "idle" /\ inv'[i].status = "running"
Completes(i) == inv[i].status = "running" /\ inv'[i].status = "done"

\* C12: the step that enters an invocation sets loading = TRUE and
\* errorMessage = null, has issued no more than the first request of each
\* leg, and leaves the item sequences, isLive and lastUpdated as they were;
\* these four change only in a step that takes some invocation through its
\* success or failure branch.
C12_EntryWritesTwoFields ==
    [][/\ \A i \in Invs :
             Enters(i) =>
                /\ loading' = TRUE /\ errorMessage' = Null
                /\ \A g \in GeoSet :
                      inv'[i].legs[g].idx = 1 /\ inv'[i].legs[g].status = "pending"
                /\ UNCHANGED <<bdTrends, ukTrends, isLive, lastUpdated>>
       /\ <<bdTrends, ukTrends, isLive, lastUpdated>>' # <<bdTrends, ukTrends, isLive, lastUpdated>>
             => \E i \in Invs : Completes(i)]_vars

\* the second invocation has just been entered after the first one took its
\* success branch: the notice-free live state is kept, loading is set
C12_Witness ==
    /\ inv[1].status = "done" /\ inv[1].branch = "success" /\ lastDone.by = 1
    /\ inv[2].status = "running"
    /\ \A g \in GeoSet : inv[2].legs[g].idx = 1 /\ inv[2].legs[g].status = "pending"
    /\ loading /\ errorMessage = Null
    /\ isLive /\ bdTrends = lastDone.bd /\ ukTrends = lastDone.uk
    /\ lastUpdated = toLocaleTimeString(lastDone.at) /\ now > lastDone.at

\* C13: both legs of an invocation are in flight at once; the step in which
\* one of them rejects takes the invocation through its failure branch
\* whatever the other leg's state, and leaves a pending other leg pending at
\* the same generator; a leg of a completed invocation goes on through the
\* remaining generators, and its steps change no state field.
C13_FirstRejectionDecides ==
    [][\A i \in Invs :
          /\ \A g \in GeoSet :
                (/\ inv[i].status = "running"
                 /\ inv[i].legs[g].status = "pending"
                 /\ inv'[i].legs[g].status = "rejected")
                => /\ inv'[i].status = "done" /\ inv'[i].branch = "failure"
                   /\ bdTrends' = SampleBd /\ ukTrends' = SampleUk /\ isLive' = FALSE
                   /\ \A h \in GeoSet \ {g} :
                         inv[i].legs[h].status = "pending" => inv'[i].legs[h] = inv[i].legs[h]
          /\ (inv[i].status = "done" /\ inv'[i] # inv[i])
                => /\ UNCHANGED <<appVars, sortOrder, lastDone>>
                   /\ inv'[i].status = "done" /\ inv'[i].branch = inv[i].branch
                   /\ \E g \in GeoSet :
                         /\ inv[i].legs[g].status = "pending"
                         /\ \/ inv'[i].legs[g].status \in {"resolved", "rejected"}
                            \/ /\ inv'[i].legs[g].status = "pending"
                               /\ inv'[i].legs[g].idx = inv[i].legs[g].idx + 1
                               /\ inv'[i].legs[g].idx <= NumRelays]_vars

\* the first invocation took the failure branch on its BD rejection while
\* its GB leg had not had its first answer; that leg is still pending, and
\* the state is what the failure branch wrote
C13_Witness ==
    /\ inv[1].status = "done" /\ inv[1].branch = "failure" /\ lastDone.by = 1
    /\ inv[1].legs["BD"].status = "rejected"
    /\ inv[1].legs["GB"].status = "pending" /\ inv[1].legs["GB"].idx = 1
    /\ inv[2].status = "idle"
    /\ bdTrends = SampleBd /\ ukTrends = SampleUk /\ ~isLive /\ ~loading
    /\ errorMessage = FallbackNotice

\* what the invocation that completed last handed to the setters
WrittenBd == IF lastDone.branch = "success" THEN lastDone.bd ELSE SampleBd
WrittenUk == IF lastDone.branch = "success" THEN lastDone.uk ELSE SampleUk

\* C15: whatever was sorted and toggled since, the stored item sequences are
\* element for element and in order what the last completed load wrote
\* (empty before the first completion); a change of sortOrder flips it,
\* starts no load and changes no other field; no step of an invocation
\* changes sortOrder.
C15_SortLeavesStoredItems ==
    /\ [](lastDone.by = 0 => bdTrends = <<>> /\ ukTrends = <<>>)
    /\ [](lastDone.by # 0 => bdTrends = WrittenBd /\ ukTrends = WrittenUk)
    /\ [][sortOrder' # sortOrder
            => /\ {sortOrder, sortOrder'} = {"asc", "desc"}
               /\ UNCHANGED <<appVars, phase, intervalId, now, inv, lastDone>>]_vars
    /\ [][inv' # inv => sortOrder' = sortOrder]_vars

\* after the order was toggled to ascending the display differs from the
\* stored order, and the stored order is the one the failure branch wrote
C15_Witness ==
    /\ lastDone.by # 0 /\ lastDone.branch = "failure" /\ ~isLive
    /\ sortOrder = "asc"
    /\ sortedBdTrends # bdTrends /\ sortedUkTrends # ukTrends
    /\ bdTrends = SampleBd /\ ukTrends = SampleUk

InFlight == {i \in Invs : inv[i].status = "running"}

\* C16 (as claimed): loading = TRUE whenever an invocation is in flight.
C16_LoadingWhileInFlight == InFlight # {} => loading

\* C16 (amended): once mounted, loading = TRUE implies that an invocation is
\* in flight; the converse fails, since the first completion among
\* overlapping invocations sets loading = FALSE with another still in flight.
C16_LoadingImpliesInFlight == (phase # "init" /\ loading) => InFlight # {}

\* a manual refresh, enabled by the first completion, is the one invocation
\* in flight
C16_Witness ==
    /\ phase = "mounted" /\ loading
    /\ inv[1].status = "done" /\ inv[2].origin = "manual" /\ InFlight = {2}

\* C17: the stored item sequences are both empty (no completion yet), or
\* both the parses of the invocation that completed last through its success
\* branch, or both the sample parses; isLive = TRUE exactly in the second
\* case.
C17_ItemsWrittenAsPair ==
    \/ /\ lastDone.by = 0
       /\ bdTrends = <<>> /\ ukTrends = <<>> /\ ~isLive
    \/ /\ lastDone.by # 0 /\ inv[lastDone.by].branch = "success"
       /\ bdTrends = lastDone.bd /\ ukTrends = lastDone.uk
       /\ bdTrends \notin {<<>>, SampleBd} /\ ukTrends \notin {<<>>, SampleUk}
       /\ isLive
    \/ /\ lastDone.by # 0 /\ inv[lastDone.by].branch = "failure"
       /\ bdTrends = SampleBd /\ ukTrends = SampleUk
       /\ ~isLive

\* two overlapping invocations both took the success branch, the one started
\* first completing last: the stored pair is its pair
C17_Witness ==
    /\ inv[1].branch = "success" /\ inv[2].branch = "success"
    /\ inv[2].origin = "timer" /\ lastDone.by = 1
    /\ isLive /\ bdTrends = lastDone.bd /\ ukTrends = lastDone.uk
    /\ Len(bdTrends) # Len(ukTrends)

\* C18: the step that completes an invocation leaves in each stored sequence
\* exactly the sequence that invocation produced (its parse on success, the
\* sample parse on failure): the same length, the same items in the same
\* places, none of the items stored before unless produced again; a refresh
\* that produces the stored sequence again leaves it as it is.
C18_CompletionReplaces ==
    [][\A i \in Invs :
          Completes(i) =>
            LET producedBd == IF inv'[i].branch = "success" THEN lastDone'.bd ELSE SampleBd
                producedUk == IF inv'[i].branch = "success" THEN lastDone'.uk ELSE SampleUk
            IN  /\ Len(bdTrends') = Len(producedBd) /\ Len(ukTrends') = Len(producedUk)
                /\ \A k \in 1..Len(producedBd) : bdTrends'[k] = producedBd[k]
                /\ \A k \in 1..Len(producedUk) : ukTrends'[k] = producedUk[k]
                /\ producedBd = bdTrends => bdTrends' = bdTrends
                /\ producedUk = ukTrends => ukTrends' = ukTrends]_vars

\* over the samples stored by the first invocation the second one wrote a
\* shorter live parse, and nothing of the samples is left
C18_Witness ==
    /\ inv[1].status = "done" /\ inv[1].branch = "failure"
    /\ lastDone.by = 2 /\ inv[2].branch = "success"
    /\ Len(bdTrends) = 1 /\ Len(SampleBd) > 1
    /\ \A k \in 1..Len(SampleBd) : SampleBd[k] # bdTrends[1]
    /\ bdTrends = lastDone.bd

====
